---- MODULE Spec2Model ----
(***************************************************************************)
(* Model of the job-shop scheduler of src/schedule.hpp: the interval, the  *)
(* per-machine timeline (a std::list of intervals), the schedule with its  *)
(* first-fit placement (add_task / schedule_task), the stage-by-stage      *)
(* dispatch loop (schedule_jobs) and the readers (longest_timeline,        *)
(* summary, gantt_chart).                                                  *)
(*                                                                         *)
(* Indices follow the source: machines, jobs and the operations of a job   *)
(* are numbered from 0.  A timeline is a sequence of intervals and a       *)
(* std::list iterator is a position 1..Len in it; Len + 1 is end().        *)
(* A task pointer is the pair <<job, operation>>; nullptr is <<>>.         *)
(* time32_t arithmetic is modelled on the integers: every instance below   *)
(* stays far from interval::infinity, the only value near the type's limit.*)
(***************************************************************************)
EXTENDS Integers, Sequences, FiniteSets, TLC

\* ------------------------------------------------------------------ bounds
MaxJobs == 2
MaxStages == 2
MaxOps == 4
MaxMachines == 2
MaxDuration == 2
MaxHeteroOps == 3
LongDuration == 100

\* ------------------------------------------------------- program constants
\* interval::infinity, std::numeric_limits<time32_t>::max()
infinity == 2147483647
\* char* id_string = new char[3]
id_string_size == 3

VARIABLES
    machine_count,  \* data.machine_count
    jobs,           \* data.jobs: id, sequence of tasks, last_scheduled_time
    table,          \* schedule::table, one timeline per machine
    heuristic,      \* the comparator handed to schedule_jobs
    i,              \* the stage index of schedule_jobs' outer loop
    jobs_order,     \* the sorted vector of job pointers of the current stage
    pos,            \* how many entries of jobs_order the inner loop has done
    pc,             \* where the program is
    placements,     \* history: how often add_task ran on each task
    summary_out,    \* history: what summary() returned last
    chart_out       \* history: what gantt_chart() returned last

vars == <<machine_count, jobs, table, heuristic, i, jobs_order, pos, pc,
          placements, summary_out, chart_out>>

\* ------------------------------------------------------------------ helpers
nullptr == <<>>

\* an output is recorded as <<value>>; <<>> while nobody has produced it
NoOutput == <<>>

\* task::scheduled_time before the task is scheduled
unset == -1

max(a, b) == IF a >= b THEN a ELSE b

min(a, b) == IF a <= b THEN a ELSE b

SetMax(S) == CHOOSE x \in S : \A y \in S : y <= x

SetMin(S) == CHOOSE x \in S : \A y \in S : x <= y

\* vector::size() of a container indexed from 0
size(f) == Cardinality(DOMAIN f)

\* ----------------------------------------------------------------- interval
interval(start, end, task) == [start |-> start, end |-> end, task |-> task]

empty(start, end) == interval(start, end, nullptr)

occupied(iv) == iv.task # nullptr

includes(iv, time) == iv.start <= time /\ time <= iv.end

\* includes(from, duration) measured from the interval's start, not from `from`
includes_from_ignoring_from(iv, from, duration) == iv.start + duration - 1 <= iv.end

\* includes(from, duration) with < for <=
includes_from_strict(iv, from, duration) == max(iv.start, from) + duration - 1 < iv.end

includes_from(iv, from, duration) == max(iv.start, from) + duration - 1 <= iv.end

\* ----------------------------------------------------------------- timeline
\* std::find_if over the list: the first position whose interval includes
\* time, end() when there is none
interval_at(tl, time) ==
    LET hits == {p \in 1..Len(tl) : includes(tl[p], time)}
    IN  IF hits = {} THEN Len(tl) + 1 ELSE SetMin(hits)

\* length() reading the first free interval instead of the last interval
length_first_free(tl) ==
    LET first == CHOOSE p \in 1..Len(tl) :
                     /\ ~occupied(tl[p])
                     /\ \A q \in 1..(p - 1) : occupied(tl[q])
    IN  tl[first].start

length(tl) ==
    LET last == tl[Len(tl)]
    IN  IF occupied(last) THEN last.end + 1 ELSE last.start

add(tl, iv) == Append(tl, iv)

insert_before(tl, it, iv) ==
    SubSeq(tl, 1, it - 1) \o <<iv>> \o SubSeq(tl, it, Len(tl))

\* insert_after() with push_back for insert
insert_after_at_end(tl, it, iv) == Append(tl, iv)

insert_after(tl, it, iv) ==
    SubSeq(tl, 1, it) \o <<iv>> \o SubSeq(tl, it + 1, Len(tl))

\* the cells one interval contributes to quantized(limit):
\* for (i = start; i <= end and i < limit; i++) push_back(id or -1)
cells(iv, limit) ==
    LET n == max(0, min(iv.end, limit - 1) - iv.start + 1)
    IN  [x \in 1..n |-> IF occupied(iv) THEN jobs[iv.task[1]].id ELSE -1]

RECURSIVE all_cells(_, _, _)
all_cells(tl, p, limit) ==
    IF p > Len(tl) THEN <<>>
    ELSE cells(tl[p], limit) \o all_cells(tl, p + 1, limit)

\* std::vector<id32_t> result(limit) holds limit zeros; the loop appends
quantized(tl, limit) ==
    [x \in 1..limit |-> 0] \o all_cells(tl, 1, limit)

\* operator<
timeline_less(a, b) == length(a) < length(b)

\* ----------------------------------------------------------------- schedule
\* schedule_task with the block ending at start + duration
schedule_task_timeline_end_exclusive(task, duration, tl, it, start) ==
    LET interval_start == tl[it].start
        interval_end == tl[it].end
        empty_before == start > interval_start
        empty_after == start + duration < interval_end
        tl1 == [tl EXCEPT ![it] = [start |-> start, end |-> start + duration, task |-> task]]
        tl2 == IF empty_before
               THEN SubSeq(tl1, 1, it - 1)
                        \o <<[start |-> interval_start, end |-> start - 1, task |-> <<>>]>>
                        \o SubSeq(tl1, it, Len(tl1))
               ELSE tl1
        it2 == IF empty_before THEN it + 1 ELSE it
    IN  IF empty_after
        THEN SubSeq(tl2, 1, it2)
                 \o <<[start |-> start + duration + 1, end |-> interval_end, task |-> <<>>]>>
                 \o SubSeq(tl2, it2 + 1, Len(tl2))
        ELSE tl2

\* schedule_task without interval->task = &task
schedule_task_timeline_task_not_set(task, duration, tl, it, start) ==
    LET interval_start == tl[it].start
        interval_end == tl[it].end
        empty_before == start > interval_start
        empty_after == start + duration - 1 < interval_end
        tl1 == [tl EXCEPT ![it] = [start |-> start, end |-> start + duration - 1, task |-> <<>>]]
        tl2 == IF empty_before
               THEN SubSeq(tl1, 1, it - 1)
                        \o <<[start |-> interval_start, end |-> start - 1, task |-> <<>>]>>
                        \o SubSeq(tl1, it, Len(tl1))
               ELSE tl1
        it2 == IF empty_before THEN it + 1 ELSE it
    IN  IF empty_after
        THEN SubSeq(tl2, 1, it2)
                 \o <<[start |-> start + duration, end |-> interval_end, task |-> <<>>]>>
                 \o SubSeq(tl2, it2 + 1, Len(tl2))
        ELSE tl2

\* schedule_task with the free prefix running up to start instead of start - 1
schedule_task_timeline_long_prefix(task, duration, tl, it, start) ==
    LET interval_start == tl[it].start
        interval_end == tl[it].end
        empty_before == start > interval_start
        empty_after == start + duration - 1 < interval_end
        tl1 == [tl EXCEPT ![it] = interval(start, start + duration - 1, task)]
        tl2 == IF empty_before
               THEN insert_before(tl1, it, empty(interval_start, start))
               ELSE tl1
        it2 == IF empty_before THEN it + 1 ELSE it
    IN  IF empty_after
        THEN insert_after(tl2, it2, empty(start + duration, interval_end))
        ELSE tl2

\* schedule_task without the free suffix behind the occupied block
schedule_task_timeline_no_suffix(task, duration, tl, it, start) ==
    LET interval_start == tl[it].start
        empty_before == start > interval_start
        tl1 == [tl EXCEPT ![it] = interval(start, start + duration - 1, task)]
    IN  IF empty_before
        THEN insert_before(tl1, it, empty(interval_start, start - 1))
        ELSE tl1

\* schedule_task on the timeline: the interval at `it` becomes the occupied
\* block, a free prefix goes before it and a free suffix after it
schedule_task_timeline(task, duration, tl, it, start) ==
    LET interval_start == tl[it].start
        interval_end == tl[it].end
        empty_before == start > interval_start
        empty_after == start + duration - 1 < interval_end
        tl1 == [tl EXCEPT ![it] = interval(start, start + duration - 1, task)]
        tl2 == IF empty_before
               THEN insert_before(tl1, it, empty(interval_start, start - 1))
               ELSE tl1
        it2 == IF empty_before THEN it + 1 ELSE it
    IN  IF empty_after
        THEN insert_after(tl2, it2, empty(start + duration, interval_end))
        ELSE tl2

\* schedule_task leaving the job's cursor one past the end of the task
schedule_task_job_cursor_plus_one(js, task, start) ==
    LET j == task[1]
        s == task[2]
        duration == js[j].sequence[s].duration
    IN  [js EXCEPT ![j].sequence[s].scheduled_time = start,
                   ![j].last_scheduled_time = start + duration + 1]

\* schedule_task leaving the job's cursor at the start of the task
schedule_task_job_cursor_at_start(js, task, start) ==
    LET j == task[1]
        s == task[2]
    IN  [js EXCEPT ![j].sequence[s].scheduled_time = start,
                   ![j].last_scheduled_time = start]

\* schedule_task on the task and its parent job
schedule_task_job(js, task, start) ==
    LET j == task[1]
        s == task[2]
        duration == js[j].sequence[s].duration
    IN  [js EXCEPT ![j].sequence[s].scheduled_time = start,
                   ![j].last_scheduled_time = start + duration]

\* the while loop of add_task without the occupied() test
RECURSIVE scan_any_interval(_, _, _, _)
scan_any_interval(tl, time, job_end, duration) ==
    IF time > Len(tl) THEN time
    ELSE IF ~includes_from(tl[time], job_end, duration)
         THEN scan_any_interval(tl, time + 1, job_end, duration)
         ELSE time

\* the while loop of add_task: advance while the interval is occupied or too
\* short; end() (Len + 1) when the loop would run off the list
RECURSIVE scan(_, _, _, _)
scan(tl, time, job_end, duration) ==
    IF time > Len(tl) THEN time
    ELSE IF occupied(tl[time]) \/ ~includes_from(tl[time], job_end, duration)
         THEN scan(tl, time + 1, job_end, duration)
         ELSE time

\* the position add_task hands to schedule_task
chosen(tl, job_end, duration) ==
    LET first == interval_at(tl, job_end)
    IN  IF first > Len(tl) THEN first ELSE scan(tl, first, job_end, duration)

\* std::max_element with the comparison turned round
RECURSIVE max_element_from_swapped(_, _, _)
max_element_from_swapped(tb, best, m) ==
    IF m >= size(tb) THEN best
    ELSE IF timeline_less(tb[m], tb[best])
         THEN max_element_from_swapped(tb, m, m + 1)
         ELSE max_element_from_swapped(tb, best, m + 1)

\* std::max_element over the table with operator<: the first largest
RECURSIVE max_element_from(_, _, _)
max_element_from(tb, best, m) ==
    IF m >= size(tb) THEN best
    ELSE IF timeline_less(tb[best], tb[m])
         THEN max_element_from(tb, m, m + 1)
         ELSE max_element_from(tb, best, m + 1)

max_element(tb) == max_element_from(tb, 0, 1)

longest_timeline == length(table[max_element(table)])

\* the text of summary(): the makespan, then one line of start times per job
summary ==
    <<longest_timeline>> \o
    [x \in 1..size(jobs) |->
        [y \in 1..size(jobs[x - 1].sequence) |->
            jobs[x - 1].sequence[y - 1].scheduled_time]]

\* number of decimal digits of n >= 1: floor(log10(n)) + 1
RECURSIVE digits(_)
digits(n) == IF n < 10 THEN 1 ELSE 1 + digits(n \div 10)

cell_width == max(digits(longest_timeline), digits(size(jobs)))

left_col_width == digits(machine_count)

\* sprintf writes the padded number and a terminating NUL into id_string
id_string_overflow ==
    cell_width + 1 > id_string_size \/ left_col_width + 1 > id_string_size

\* the chart: the header of time stamps and one row of cells per machine
gantt_chart ==
    LET longest == longest_timeline
    IN  [header |-> [x \in 1..longest |-> x - 1],
         rows |-> [m \in 0..(machine_count - 1) |-> quantized(table[m], longest)]]

\* ---------------------------------------------------------------- heuristic
\* the comparator with < for >: shortest operation first
heuristic_less_shortest_first(a, b, stage) ==
    IF heuristic = "longest_first"
    THEN jobs[a].sequence[stage].duration < jobs[b].sequence[stage].duration
    ELSE FALSE

\* the comparator: longest operation of the stage first, or a comparator
\* that prefers no job (std::sort may then leave the jobs in any order)
heuristic_less(a, b, stage) ==
    IF heuristic = "longest_first"
    THEN jobs[a].sequence[stage].duration > jobs[b].sequence[stage].duration
    ELSE FALSE

\* std::fill for std::iota: every entry points to data.jobs[0]
iota_first_job_only == [x \in 1..size(jobs) |-> 0]

\* std::iota: the job pointers &data.jobs[0], &data.jobs[0] + 1, ...
iota == [x \in 1..size(jobs) |-> x - 1]

\* the outcomes of std::sort on the vector v: every rearrangement of v in
\* which no later entry is less than an earlier one
\* the stage loop without its std::sort: the jobs stay in iota order
sorted_orders_unsorted(v, stage) == {v}

sorted_orders(v, stage) ==
    {p \in [1..Len(v) -> {v[x] : x \in 1..Len(v)}] :
        /\ \E pi \in [1..Len(v) -> 1..Len(v)] :
               /\ \A x, y \in 1..Len(v) : x # y => pi[x] # pi[y]
               /\ \A x \in 1..Len(v) : p[x] = v[pi[x]]
        /\ \A x, y \in 1..Len(v) :
               x < y => ~heuristic_less(p[y], p[x], stage)}

\* the stage loop advancing after the first job
stage_complete_after_first(done) == done >= 1

\* for (job* job : jobs_order): the loop ends behind the last entry
stage_complete(done) == done = Len(jobs_order)

\* std::sort(data.jobs) by id
RECURSIVE sorted_by_id_from(_, _)
sorted_by_id_from(js, rest) ==
    IF rest = {} THEN <<>>
    ELSE LET first == CHOOSE x \in rest : \A y \in rest : js[x].id <= js[y].id
         IN  <<js[first]>> \o sorted_by_id_from(js, rest \ {first})

sorted_by_id(js) ==
    LET s == sorted_by_id_from(js, DOMAIN js)
    IN  [x \in DOMAIN js |-> s[x + 1]]

\* --------------------------------------------------------------- the dataset
task(machine_id, duration) ==
    [machine_id |-> machine_id, duration |-> duration, scheduled_time |-> unset]

job(id, sequence) ==
    [id |-> id, sequence |-> sequence, last_scheduled_time |-> 0]

\* schedule::schedule: one timeline per machine, each a single free interval
constructed_table(mc) == [m \in 0..(mc - 1) |-> add(<<>>, empty(0, infinity))]

Heuristics == {"longest_first", "no_preference"}

InitRest ==
    /\ table = constructed_table(machine_count)
    /\ i = 0
    /\ jobs_order = <<>>
    /\ pos = 0
    /\ pc = "stage"
    /\ placements = [j \in DOMAIN jobs |-> [s \in DOMAIN jobs[j].sequence |-> 0]]
    /\ summary_out = NoOutput
    /\ chart_out = NoOutput

\* every instance within the bounds; all jobs have the same number of tasks
InitBounded ==
    /\ machine_count \in 1..MaxMachines
    /\ heuristic \in Heuristics
    /\ \E nj \in 1..MaxJobs, ns \in 1..MaxStages :
        /\ nj * ns <= MaxOps
        /\ \E mach \in [(0..(nj - 1)) \X (0..(ns - 1)) -> 0..(machine_count - 1)],
              dur \in [(0..(nj - 1)) \X (0..(ns - 1)) -> 1..MaxDuration] :
            jobs = [j \in 0..(nj - 1) |->
                      job(j, [s \in 0..(ns - 1) |-> task(mach[j, s], dur[j, s])])]
    /\ InitRest

\* the reference scenario: 2 machines, Job0 = [(0, 3), (1, 2)],
\* Job1 = [(0, 2), (1, 4)], longest operation first
ScenarioJobs ==
    [j \in 0..1 |->
        IF j = 0 THEN job(0, [s \in 0..1 |-> IF s = 0 THEN task(0, 3) ELSE task(1, 2)])
        ELSE job(1, [s \in 0..1 |-> IF s = 0 THEN task(0, 2) ELSE task(1, 4)])]

InitScenario ==
    /\ machine_count = 2
    /\ heuristic = "longest_first"
    /\ jobs = ScenarioJobs
    /\ InitRest

\* one long operation: a makespan of three digits
InitLong ==
    /\ machine_count = 1
    /\ heuristic \in Heuristics
    /\ jobs = [j \in 0..0 |-> job(0, [s \in 0..0 |-> task(0, LongDuration)])]
    /\ InitRest

\* the number of tasks of jobs 0..(nj - 1) with len[j] tasks each
RECURSIVE task_count(_, _)
task_count(len, nj) == IF nj = 0 THEN 0 ELSE len[nj - 1] + task_count(len, nj - 1)

\* instances whose jobs have at least as many tasks as job 0, some of them more
InitHetero ==
    /\ machine_count \in 1..MaxMachines
    /\ heuristic \in Heuristics
    /\ \E nj \in 1..MaxJobs :
        \E len \in [0..(nj - 1) -> 1..MaxStages] :
            /\ \A j \in 0..(nj - 1) : len[j] >= len[0]
            /\ task_count(len, nj) <= MaxHeteroOps
            /\ LET tasks == UNION {{<<j, s>> : s \in 0..(len[j] - 1)} : j \in 0..(nj - 1)}
               IN  \E mach \in [tasks -> 0..(machine_count - 1)],
                      dur \in [tasks -> 1..MaxDuration] :
                       jobs = [j \in 0..(nj - 1) |->
                                 job(j, [s \in 0..(len[j] - 1) |->
                                           task(mach[<<j, s>>], dur[<<j, s>>])])]
    /\ InitRest

Init == InitBounded \/ InitScenario \/ InitLong

\* ------------------------------------------------------------------ actions
\* the stage count one short of job 0's sequence
sequence_length_minus_one == size(jobs[0].sequence) - 1

sequence_length == size(jobs[0].sequence)

\* the head of a stage: iota, then std::sort with the heuristic
StageSort ==
    /\ pc = "stage"
    /\ i < sequence_length
    /\ jobs_order' \in sorted_orders(iota, i)
    /\ pos' = 0
    /\ pc' = "dispatch"
    /\ UNCHANGED <<machine_count, jobs, table, heuristic, i, placements,
                   summary_out, chart_out>>

\* add_task(job->sequence[i]) for the next job of jobs_order, schedule_task
\* included; an iterator that ran off the timeline is dereferenced.  Behind
\* the last job the stage's jobs_order goes out of scope and i is incremented
AddTask ==
    /\ pc = "dispatch"
    /\ pos < Len(jobs_order)
    /\ LET j == jobs_order[pos + 1]
           t == jobs[j].sequence[i]
           m == t.machine_id
           job_end == jobs[j].last_scheduled_time
           time == chosen(table[m], job_end, t.duration)
       IN  IF time > Len(table[m])
           THEN /\ pc' = "undefined"
                /\ UNCHANGED <<jobs, table, i, jobs_order, pos, placements>>
           ELSE LET start == max(table[m][time].start, job_end)
                IN  /\ table' = [table EXCEPT ![m] =
                            schedule_task_timeline(<<j, i>>, t.duration, table[m], time, start)]
                    /\ jobs' = schedule_task_job(jobs, <<j, i>>, start)
                    /\ placements' = [placements EXCEPT ![j][i] = @ + 1]
                    /\ IF stage_complete(pos + 1)
                       THEN /\ i' = i + 1
                            /\ jobs_order' = <<>>
                            /\ pos' = 0
                            /\ pc' = "stage"
                       ELSE /\ i' = i
                            /\ jobs_order' = jobs_order
                            /\ pos' = pos + 1
                            /\ pc' = "dispatch"
    /\ UNCHANGED <<machine_count, heuristic, summary_out, chart_out>>

\* after the last stage: data.jobs is sorted by id and schedule_jobs returns;
\* its loop variable is gone
Finish ==
    /\ pc = "stage"
    /\ i >= sequence_length
    /\ jobs' = sorted_by_id(jobs)
    /\ i' = 0
    /\ pc' = "done"
    /\ UNCHANGED <<machine_count, table, heuristic, jobs_order, pos,
                   placements, summary_out, chart_out>>

\* longest_timeline() that sorts the table to find its largest timeline
RECURSIVE sorted_by_length_from(_, _)
sorted_by_length_from(tb, rest) ==
    IF rest = {} THEN <<>>
    ELSE LET first == CHOOSE x \in rest :
                          \A y \in rest : length(tb[x]) < length(tb[y])
                                          \/ (length(tb[x]) = length(tb[y]) /\ x <= y)
         IN  <<tb[first]>> \o sorted_by_length_from(tb, rest \ {first})

LongestTimeline_sorting_table ==
    /\ pc = "done"
    /\ table' = [m \in DOMAIN table |-> sorted_by_length_from(table, DOMAIN table)[m + 1]]
    /\ UNCHANGED <<machine_count, jobs, heuristic, i, jobs_order, pos,
                   pc, placements, summary_out, chart_out>>

\* longest_timeline() is const: it returns longest_timeline and changes nothing
LongestTimeline ==
    /\ pc = "done"
    /\ UNCHANGED vars

Summary ==
    /\ pc = "done"
    /\ summary_out' = <<summary>>
    /\ UNCHANGED <<machine_count, jobs, table, heuristic, i, jobs_order, pos,
                   pc, placements, chart_out>>

\* gantt_chart(): when a formatted number does not fit id_string, sprintf
\* writes past the 3 bytes; the call then returns normally or the process
\* is stopped by the allocator's checks
GanttChart ==
    /\ pc = "done"
    /\ \/ /\ chart_out' = <<gantt_chart>>
          /\ pc' = pc
       \/ /\ id_string_overflow
          /\ pc' = "aborted"
          /\ chart_out' = chart_out
    /\ UNCHANGED <<machine_count, jobs, table, heuristic, i, jobs_order, pos,
                   placements, summary_out>>

Next ==
    \/ StageSort
    \/ AddTask
    \/ Finish
    \/ LongestTimeline
    \/ Summary
    \/ GanttChart

Spec == Init /\ [][Next]_vars

\* schedule_jobs alone, on instances whose jobs may be longer than job 0
schedule_jobs ==
    \/ StageSort
    \/ AddTask
    \/ Finish

SpecHetero == InitHetero /\ [][schedule_jobs]_vars

\* ------------------------------------------------------------ the properties
Jobs == DOMAIN jobs

Stages(j) == DOMAIN jobs[j].sequence

placed(j, s) == placements[j][s] > 0

start_of(j, s) == jobs[j].sequence[s].scheduled_time

duration_of(j, s) == jobs[j].sequence[s].duration

machine_of(j, s) == jobs[j].sequence[s].machine_id

PlacedTasks == {t \in UNION {{<<j, s>> : s \in Stages(j)} : j \in Jobs} : placed(t[1], t[2])}

Machines == DOMAIN table

\* C1. Partition invariant: on every machine, in the constructed state and
\* after every placement, the intervals are sorted by start, each interval
\* ends one before the next starts, the first starts at 0 and the last is
\* free and ends at infinity: they cover [0, +infinity) without gap or overlap.
PartitionInvariant ==
    \A m \in Machines :
        LET tl == table[m]
        IN  /\ Len(tl) >= 1
            /\ tl[1].start = 0
            /\ \A p \in 1..(Len(tl) - 1) :
                   /\ tl[p].start < tl[p + 1].start
                   /\ tl[p].end < infinity
                   /\ tl[p].end + 1 = tl[p + 1].start
            /\ \A p \in 1..Len(tl) : tl[p].start <= tl[p].end
            /\ ~occupied(tl[Len(tl)])
            /\ tl[Len(tl)].end = infinity

\* a placement split a free interval on both sides: a timeline holds a free
\* prefix, then an occupied block, a free gap, a block and the free tail
PartitionWitness ==
    \E m \in Machines :
        /\ Len(table[m]) >= 5
        /\ ~occupied(table[m][1])
        /\ \E p \in 2..(Len(table[m]) - 1) : ~occupied(table[m][p])

\* C2. No-overlap: two distinct placed operations of the same machine never
\* share a time unit of their ranges [start, start + duration - 1].
NoOverlap ==
    \A a, b \in PlacedTasks :
        (a # b /\ machine_of(a[1], a[2]) = machine_of(b[1], b[2])) =>
            \/ start_of(a[1], a[2]) + duration_of(a[1], a[2]) - 1 < start_of(b[1], b[2])
            \/ start_of(b[1], b[2]) + duration_of(b[1], b[2]) - 1 < start_of(a[1], a[2])

\* two operations of different jobs on one machine, the second starting where
\* the first ends, behind a free prefix of the timeline
NoOverlapWitness ==
    \E a, b \in PlacedTasks :
        /\ a[1] # b[1]
        /\ machine_of(a[1], a[2]) = machine_of(b[1], b[2])
        /\ start_of(a[1], a[2]) > 0
        /\ start_of(a[1], a[2]) + duration_of(a[1], a[2]) = start_of(b[1], b[2])
        /\ ~occupied(table[machine_of(a[1], a[2])][1])

\* C3. Order preservation: when two consecutive operations of a job are both
\* placed, the later one starts no earlier than the earlier one ends.
OrderPreservation ==
    \A j \in Jobs : \A s \in Stages(j) :
        (s + 1 \in Stages(j) /\ placed(j, s) /\ placed(j, s + 1)) =>
            start_of(j, s + 1) >= start_of(j, s) + duration_of(j, s)

\* consecutive operations on different machines, the later one on a machine
\* that was free at the time the earlier one ran
OrderPreservationWitness ==
    \E j \in Jobs : \E s \in Stages(j) :
        /\ s + 1 \in Stages(j) /\ placed(j, s) /\ placed(j, s + 1)
        /\ machine_of(j, s) # machine_of(j, s + 1)
        /\ start_of(j, s + 1) = start_of(j, s) + duration_of(j, s)
        /\ start_of(j, s) > 0
        /\ \A t \in PlacedTasks : machine_of(t[1], t[2]) = machine_of(j, s + 1) => t = <<j, s + 1>>

\* C4. Placement always succeeds and schedule_jobs terminates: whenever a
\* task is about to be placed, interval_at(cursor) finds an interval and the
\* forward scan stops, inside the timeline, at a free interval the task fits;
\* schedule_jobs finishes with every task placed: until it is done it always
\* has a next step, each of its steps lowers a measure that cannot fall
\* below 0, and when it is done every task is placed.
PlacementFound ==
    /\ pc # "undefined"
    /\ (pc = "dispatch" /\ pos < Len(jobs_order)) =>
          LET j == jobs_order[pos + 1]
              t == jobs[j].sequence[i]
              tl == table[t.machine_id]
              job_end == jobs[j].last_scheduled_time
              first == interval_at(tl, job_end)
              time == chosen(tl, job_end, t.duration)
          IN  /\ first <= Len(tl)
              /\ time <= Len(tl)
              /\ first <= time
              /\ ~occupied(tl[time])
              /\ includes_from(tl[time], job_end, t.duration)

AllPlaced == \A j \in Jobs : \A s \in Stages(j) : placed(j, s)

\* what schedule_jobs still has to do: the tasks to place, the sort of the
\* stage, the step that ends the loop
Remaining ==
    3 * Cardinality({t \in UNION {{<<j, s>> : s \in Stages(j)} : j \in Jobs} :
                        ~placed(t[1], t[2])})
    + (IF pc = "stage" THEN 2 ELSE IF pc = "dispatch" THEN 1 ELSE 0)

Running == pc \in {"stage", "dispatch"}

\* one of StageSort, AddTask and Finish can be taken: their guards
CanStep ==
    \/ pc = "stage" /\ i < sequence_length /\ sorted_orders(iota, i) # {}
    \/ pc = "dispatch" /\ pos < Len(jobs_order)
    \/ pc = "stage" /\ i >= sequence_length

PlacementTerminates ==
    /\ [](PlacementFound)
    /\ [](pc \in {"stage", "dispatch", "done", "aborted"})
    /\ [](Running => CanStep)
    /\ [][Running => (Remaining' < Remaining /\ Remaining' >= 0)]_vars
    /\ [](pc = "done" => AllPlaced)

\* the scan is about to pass a free interval that is too short and an
\* occupied one before it stops
PlacementWitness ==
    /\ pc = "dispatch" /\ pos < Len(jobs_order)
    /\ LET j == jobs_order[pos + 1]
           t == jobs[j].sequence[i]
           tl == table[t.machine_id]
           job_end == jobs[j].last_scheduled_time
           first == interval_at(tl, job_end)
       IN  /\ first <= Len(tl)
           /\ ~occupied(tl[first])
           /\ chosen(tl, job_end, t.duration) >= first + 2

\* C5. Stage interleaving: a job's stage s + 1 operation is placed only when
\* the stage s operation of every job is placed, and the numbers of placed
\* operations of two jobs never differ by more than one.
placed_count(j) == Cardinality({s \in Stages(j) : placed(j, s)})

StageInterleaving ==
    \A a, b \in Jobs :
        /\ \A s \in Stages(a) :
               (placed(a, s) /\ s >= 1) => (s - 1 \in Stages(b) /\ placed(b, s - 1))
        /\ placed_count(a) - placed_count(b) <= 1

\* in the middle of stage 1: one job has two operations placed, another one
StageInterleavingWitness ==
    \E a, b \in Jobs :
        /\ placed_count(a) = 2
        /\ placed_count(b) = 1
        /\ pc = "dispatch"

\* C6. Reference scenario: 2 machines, Job0 = [(0, 3), (1, 2)],
\* Job1 = [(0, 2), (1, 4)], longest operation first: schedule_jobs ends with
\* Job0 at 0 and 3, Job1 at 3 and 5, and the reported makespan is 9.
IsScenario ==
    /\ machine_count = 2
    /\ heuristic = "longest_first"
    /\ DOMAIN jobs = 0..1
    /\ \A j \in 0..1 :
           /\ DOMAIN jobs[j].sequence = 0..1
           /\ jobs[j].id = j
           /\ \A s \in 0..1 :
                  /\ jobs[j].sequence[s].machine_id = ScenarioJobs[j].sequence[s].machine_id
                  /\ jobs[j].sequence[s].duration = ScenarioJobs[j].sequence[s].duration

ScenarioResult ==
    (IsScenario /\ pc = "done") =>
        /\ start_of(0, 0) = 0
        /\ start_of(1, 0) = 3
        /\ start_of(1, 1) = 5
        /\ start_of(0, 1) = 3
        /\ longest_timeline = 9
        /\ summary = <<9, <<0, 3>>, <<3, 5>>>>

ScenarioWitness == IsScenario /\ pc = "done" /\ summary_out # NoOutput

\* C7. Makespan consistency: with at least one machine, the reported makespan
\* (longest_timeline(), the first line of summary()) is the maximum of
\* length() over the machines.
MaxLength == SetMax({length(table[m]) : m \in Machines})

MakespanConsistency ==
    machine_count >= 1 =>
        /\ longest_timeline = MaxLength
        /\ summary[1] = MaxLength
        /\ summary_out # NoOutput => summary_out[1][1] = MaxLength

\* the longest timeline is not the first of the table, and summary() has
\* reported
MakespanWitness ==
    /\ machine_count >= 2
    /\ length(table[0]) > 0
    /\ length(table[1]) > length(table[0])
    /\ summary_out # NoOutput

\* C8. Write-once assignment: every task is placed exactly once; the start
\* time of a placed task is never changed again and no job's cursor decreases.
WriteOnceStep ==
    /\ DOMAIN jobs' = DOMAIN jobs
    /\ \A j \in Jobs :
           /\ jobs'[j].last_scheduled_time >= jobs[j].last_scheduled_time
           /\ \A s \in Stages(j) :
                  /\ placed(j, s) =>
                         /\ jobs'[j].sequence[s].scheduled_time = start_of(j, s)
                         /\ placements'[j][s] = placements[j][s]
                  /\ placements'[j][s] # placements[j][s] =>
                         /\ placements'[j][s] = 1
                         /\ jobs'[j].sequence[s].scheduled_time # unset

WriteOnce ==
    /\ [][WriteOnceStep]_vars
    /\ [](\A j \in Jobs : \A s \in Stages(j) : placements[j][s] <= 1)
    /\ [](pc = "done" => \A j \in Jobs : \A s \in Stages(j) :
                             placements[j][s] = 1 /\ start_of(j, s) # unset)

\* schedule_jobs is done with two jobs of two tasks, each placed once
WriteOnceWitness ==
    /\ pc = "done"
    /\ size(jobs) >= 2
    /\ \A j \in Jobs : size(jobs[j].sequence) >= 2
    /\ \A j \in Jobs : \A s \in Stages(j) : placements[j][s] = 1

\* C9. Idempotent read: once schedule_jobs is done, no call of gantt_chart(),
\* summary() or longest_timeline() changes a timeline, a start time or a
\* cursor, and a reader that has returned returns the same again.
IdempotentReadStep ==
    pc = "done" =>
        /\ table' = table
        /\ jobs' = jobs
        /\ machine_count' = machine_count
        /\ summary_out # NoOutput => summary_out' = summary_out
        /\ chart_out # NoOutput => chart_out' = chart_out

PlaceStep == pc = "dispatch" /\ placements' # placements

\* the job, stage, machine, cursor and duration of the task being placed, and
\* its machine's timeline before the step
PlaceJob == jobs_order[pos + 1]

PlaceMachine == jobs[PlaceJob].sequence[i].machine_id

PlaceDuration == jobs[PlaceJob].sequence[i].duration

PlaceEarliest == jobs[PlaceJob].last_scheduled_time

PlaceTimeline == table[PlaceMachine]

\* the start time the step assigns
PlaceStart == jobs'[PlaceJob].sequence[i].scheduled_time

\* the position, before the step, of the interval that holds time t
PositionOf(tl, t) == CHOOSE p \in 1..Len(tl) : tl[p].start <= t /\ t <= tl[p].end

\* C11. First-fit selection: the placed task goes into the first interval, at
\* or behind the interval that contains the job's cursor, that is free and
\* satisfies max(start, cursor) + duration - 1 <= end; every interval the scan
\* passed is occupied or too short; the assigned start is max(start, cursor).
FirstFitStep ==
    PlaceStep =>
        LET tl == PlaceTimeline
            fits(p) == (IF tl[p].start >= PlaceEarliest THEN tl[p].start ELSE PlaceEarliest)
                           + PlaceDuration - 1 <= tl[p].end
            free(p) == tl[p].task = nullptr
            first == PositionOf(tl, PlaceEarliest)
            c == PositionOf(tl, PlaceStart)
        IN  /\ first <= c
            /\ free(c) /\ fits(c)
            /\ \A p \in first..(c - 1) : ~free(p) \/ ~fits(p)
            /\ PlaceStart = (IF tl[c].start >= PlaceEarliest THEN tl[c].start ELSE PlaceEarliest)
            /\ \E q \in 1..Len(table'[PlaceMachine]) :
                   table'[PlaceMachine][q] =
                       [start |-> PlaceStart, end |-> PlaceStart + PlaceDuration - 1,
                        task |-> <<PlaceJob, i>>]

FirstFit == [][FirstFitStep]_vars

\* the interval that holds the cursor is free but too short from the cursor
\* on, the next one is occupied, and the task has just gone behind both
FirstFitWitness ==
    \E m \in Machines : \E p \in 1..(Len(table[m]) - 2) :
        LET tl == table[m]
            t == tl[p + 2].task
        IN  /\ ~occupied(tl[p]) /\ occupied(tl[p + 1]) /\ occupied(tl[p + 2])
            /\ t[2] >= 1
            /\ tl[p].start <= start_of(t[1], t[2] - 1) + duration_of(t[1], t[2] - 1)
            /\ start_of(t[1], t[2] - 1) + duration_of(t[1], t[2] - 1) <= tl[p].end
            /\ tl[p + 2].start = tl[p + 1].end + 1
            /\ jobs[t[1]].last_scheduled_time = tl[p + 2].end + 1
            /\ pc = "stage" /\ i = t[2] + 1

\* C12. Earliest feasible start: the assigned start is the least time t at or
\* after the job's cursor such that no time unit of [t, t + duration - 1] is
\* covered by an occupied interval of the machine before the placement.
Covered(tl, u) == \E p \in 1..Len(tl) : occupied(tl[p]) /\ tl[p].start <= u /\ u <= tl[p].end

Feasible(tl, t, duration) == \A u \in t..(t + duration - 1) : ~Covered(tl, u)

EarliestStartStep ==
    PlaceStep =>
        /\ PlaceStart >= PlaceEarliest
        /\ Feasible(PlaceTimeline, PlaceStart, PlaceDuration)
        /\ \A t \in PlaceEarliest..(PlaceStart - 1) :
               ~Feasible(PlaceTimeline, t, PlaceDuration)

EarliestStart == [][EarliestStartStep]_vars

\* a task fills a free gap exactly: it sits between two occupied intervals,
\* starts at its job's cursor and was placed after its right neighbour
EarliestStartWitness ==
    \E m \in Machines : \E p \in 2..(Len(table[m]) - 1) :
        LET tl == table[m]
            t == tl[p].task
        IN  /\ occupied(tl[p - 1]) /\ occupied(tl[p]) /\ occupied(tl[p + 1])
            /\ pc = "stage"
            /\ tl[p + 1].task[2] = t[2]
            /\ tl[p - 1].task[2] < t[2]
            /\ t[2] >= 1
            /\ start_of(t[1], t[2]) = start_of(t[1], t[2] - 1) + duration_of(t[1], t[2] - 1)

\* C13. Timeline length equals machine completion time: length() of a
\* machine's timeline is the maximum of start + duration over the tasks placed
\* on that machine, 0 when there is none; so the makespan reported by
\* longest_timeline() and summary() is the completion time of the task that
\* finishes last.
Completion(m) ==
    SetMax({0} \cup {start_of(t[1], t[2]) + duration_of(t[1], t[2]) :
                        t \in {u \in PlacedTasks : machine_of(u[1], u[2]) = m}})

LastCompletion ==
    SetMax({0} \cup {start_of(t[1], t[2]) + duration_of(t[1], t[2]) : t \in PlacedTasks})

LengthIsCompletion ==
    /\ \A m \in Machines : length(table[m]) = Completion(m)
    /\ longest_timeline = LastCompletion
    /\ summary_out # NoOutput => summary_out[1][1] = LastCompletion

\* a finished schedule whose summary is out, with a free gap on one machine
\* and machines that complete at different times
LengthIsCompletionWitness ==
    /\ pc = "done" /\ summary_out # NoOutput
    /\ \E m \in Machines : Len(table[m]) >= 3 /\ ~occupied(table[m][1])
    /\ \E m, n \in Machines : 0 < Completion(m) /\ Completion(m) < Completion(n)

\* C14. Dispatch order follows the heuristic: within a stage the placement
\* order holds every job exactly once and tasks are placed in that order; when
\* job A is placed before job B, less(B, A, stage) is false; under the
\* longest-first comparator the durations of the stage's tasks do not increase
\* along the placement order.
DispatchOrdered ==
    pc = "dispatch" =>
        /\ \A j \in Jobs : Cardinality({x \in 1..Len(jobs_order) : jobs_order[x] = j}) = 1
        /\ \A x \in 1..Len(jobs_order) : jobs_order[x] \in Jobs
        /\ \A x \in 1..Len(jobs_order) : placed(jobs_order[x], i) <=> x <= pos
        /\ \A x, y \in 1..Len(jobs_order) :
               x < y => ~heuristic_less(jobs_order[y], jobs_order[x], i)
        /\ heuristic = "longest_first" =>
               \A x \in 1..(Len(jobs_order) - 1) :
                   duration_of(jobs_order[x], i) >= duration_of(jobs_order[x + 1], i)

DispatchStep ==
    PlaceStep =>
        \A j \in Jobs : \A s \in Stages(j) :
            placements'[j][s] = placements[j][s] + (IF j = PlaceJob /\ s = i THEN 1 ELSE 0)

DispatchFollowsHeuristic == []DispatchOrdered /\ [][DispatchStep]_vars

\* longest-first has put a job with a higher id and a strictly longer task in
\* front, and that task is placed while the other is not
DispatchFollowsHeuristicWitness ==
    /\ pc = "dispatch" /\ heuristic = "longest_first"
    /\ pos = 1 /\ Len(jobs_order) >= 2
    /\ jobs_order[1] > jobs_order[2]
    /\ duration_of(jobs_order[1], i) > duration_of(jobs_order[2], i)
    /\ placed(jobs_order[1], i) /\ ~placed(jobs_order[2], i)

\* C15. Frame of a placement: placing a task changes, on the task's machine,
\* only the chosen free interval, which becomes an optional free prefix, the
\* occupied block and an optional free suffix; every other interval of that
\* timeline and every other timeline stay as they were; of the jobs only the
\* task's start time and its job's cursor change; no step makes a timeline
\* shorter in intervals.
PlacementFrameStep ==
    /\ \A m \in Machines : Len(table'[m]) >= Len(table[m])
    /\ PlaceStep =>
        LET tl == PlaceTimeline
            new == table'[PlaceMachine]
            c == PositionOf(tl, PlaceStart)
            k == Len(new) - Len(tl) + 1
            b == CHOOSE q \in c..(c + k - 1) : new[q].task = <<PlaceJob, i>>
        IN  /\ \A m \in Machines \ {PlaceMachine} : table'[m] = table[m]
            /\ DOMAIN table' = DOMAIN table
            /\ ~occupied(tl[c])
            /\ k \in 1..3
            /\ SubSeq(new, 1, c - 1) = SubSeq(tl, 1, c - 1)
            /\ SubSeq(new, c + k, Len(new)) = SubSeq(tl, c + 1, Len(tl))
            /\ new[c].start = tl[c].start /\ new[c + k - 1].end = tl[c].end
            /\ \A q \in c..(c + k - 2) : new[q].end + 1 = new[q + 1].start
            /\ \E q \in c..(c + k - 1) : new[q].task = <<PlaceJob, i>>
            /\ b \in {c, c + 1} /\ b + 1 >= c + k - 1
            /\ \A q \in (c..(c + k - 1)) \ {b} : ~occupied(new[q])
            /\ DOMAIN jobs' = DOMAIN jobs
            /\ \A j \in Jobs :
                   /\ jobs'[j].id = jobs[j].id
                   /\ DOMAIN jobs'[j].sequence = DOMAIN jobs[j].sequence
                   /\ j # PlaceJob => jobs'[j] = jobs[j]
                   /\ \A s \in Stages(j) :
                          /\ jobs'[j].sequence[s].machine_id = jobs[j].sequence[s].machine_id
                          /\ jobs'[j].sequence[s].duration = jobs[j].sequence[s].duration
                          /\ (j # PlaceJob \/ s # i) =>
                                 jobs'[j].sequence[s] = jobs[j].sequence[s]
            /\ machine_count' = machine_count /\ heuristic' = heuristic

PlacementFrame == [][PlacementFrameStep]_vars

\* a task sits inside what was a free gap, with a free prefix and a free
\* suffix on either side of it: the longer task behind the gap belongs to the
\* same stage, so longest-first placed that one first
PlacementFrameWitness ==
    \E m \in Machines : \E p \in 1..(Len(table[m]) - 3) :
        LET tl == table[m]
        IN  /\ ~occupied(tl[p]) /\ occupied(tl[p + 1])
            /\ ~occupied(tl[p + 2]) /\ occupied(tl[p + 3])
            /\ heuristic = "longest_first"
            /\ tl[p + 1].task[2] = tl[p + 3].task[2]
            /\ duration_of(tl[p + 1].task[1], tl[p + 1].task[2])
                   < duration_of(tl[p + 3].task[1], tl[p + 3].task[2])

\* C16. Occupant consistency: every occupied interval of machine m holds a
\* task whose machine is m, starts at the task's start time, ends at start +
\* duration - 1 and has start <= end; and every placed task is the occupant of
\* exactly one interval, which lies on its own machine's timeline.
OccupantConsistency ==
    /\ \A m \in Machines : \A p \in 1..Len(table[m]) :
           LET iv == table[m][p]
           IN  occupied(iv) =>
                   /\ iv.task[1] \in Jobs /\ iv.task[2] \in Stages(iv.task[1])
                   /\ machine_of(iv.task[1], iv.task[2]) = m
                   /\ iv.start = start_of(iv.task[1], iv.task[2])
                   /\ iv.end = iv.start + duration_of(iv.task[1], iv.task[2]) - 1
                   /\ iv.start <= iv.end
                   /\ placed(iv.task[1], iv.task[2])
    /\ \A t \in PlacedTasks :
           /\ Cardinality({mp \in UNION {{<<m, p>> : p \in 1..Len(table[m])} : m \in Machines} :
                              table[mp[1]][mp[2]].task = t}) = 1
           /\ \E p \in 1..Len(table[machine_of(t[1], t[2])]) :
                  table[machine_of(t[1], t[2])][p].task = t

\* both machines hold occupied intervals, one of them two in a row, and a
\* task of duration greater than one is among them
OccupantConsistencyWitness ==
    /\ \A m \in Machines : \E p \in 1..Len(table[m]) : occupied(table[m][p])
    /\ Cardinality(Machines) >= 2
    /\ \E m \in Machines : \E p \in 1..(Len(table[m]) - 1) :
           /\ occupied(table[m][p]) /\ occupied(table[m][p + 1])
           /\ table[m][p].end > table[m][p].start

\* C17. Free gaps are maximal: no timeline has two consecutive free intervals,
\* so every free interval other than the first of its timeline is immediately
\* preceded by an occupied interval.
NoAdjacentFree ==
    \A m \in Machines :
        /\ \A p \in 1..(Len(table[m]) - 1) : occupied(table[m][p]) \/ occupied(table[m][p + 1])
        /\ \A p \in 2..Len(table[m]) : ~occupied(table[m][p]) => occupied(table[m][p - 1])

\* a timeline that a placement has split into free prefix, block, free suffix
\* inside a gap: free, occupied, free, occupied, free
NoAdjacentFreeWitness ==
    \E m \in Machines :
        /\ Len(table[m]) = 5
        /\ ~occupied(table[m][1]) /\ occupied(table[m][2]) /\ ~occupied(table[m][3])
        /\ occupied(table[m][4]) /\ ~occupied(table[m][5])

\* C18. No unforced idle start: the start a placement assigns is 0, or the
\* completion time of the preceding task of the same job, or the completion
\* time of a task placed on the same machine before; so the makespan never
\* exceeds the sum of the durations of all tasks.
AllTasks == UNION {{<<j, s>> : s \in Stages(j)} : j \in Jobs}

RECURSIVE SumDurations(_)
SumDurations(S) ==
    IF S = {} THEN 0
    ELSE LET t == CHOOSE u \in S : TRUE
         IN  duration_of(t[1], t[2]) + SumDurations(S \ {t})

NoIdleStartStep ==
    PlaceStep =>
        \/ PlaceStart = 0
        \/ /\ i >= 1
           /\ placed(PlaceJob, i - 1)
           /\ PlaceStart = start_of(PlaceJob, i - 1) + duration_of(PlaceJob, i - 1)
        \/ \E t \in PlacedTasks :
               /\ machine_of(t[1], t[2]) = PlaceMachine
               /\ PlaceStart = start_of(t[1], t[2]) + duration_of(t[1], t[2])

MakespanBound == longest_timeline <= SumDurations(AllTasks)

NoIdleStart == []MakespanBound /\ [][NoIdleStartStep]_vars

\* one task waits for its machine (stage 0, behind another job's task) and
\* one waits for its job (it starts at its predecessor's completion, behind a
\* free interval of its machine)
NoIdleStartWitness ==
    /\ \E t \in PlacedTasks : \E u \in PlacedTasks :
           /\ t[2] = 0 /\ u # t
           /\ machine_of(u[1], u[2]) = machine_of(t[1], t[2])
           /\ start_of(t[1], t[2]) = start_of(u[1], u[2]) + duration_of(u[1], u[2])
    /\ \E t \in PlacedTasks :
           /\ t[2] >= 1
           /\ start_of(t[1], t[2]) = start_of(t[1], t[2] - 1) + duration_of(t[1], t[2] - 1)
           /\ \E p \in 1..Len(table[machine_of(t[1], t[2])]) :
                  LET iv == table[machine_of(t[1], t[2])][p]
                  IN  ~occupied(iv) /\ iv.end = start_of(t[1], t[2]) - 1

\* C19. Stage count from job 0: schedule_jobs runs exactly as many stages as
\* job 0 has tasks. When it returns, every task at an index below that count
\* is placed once, so with equally long jobs all tasks are placed; a task at
\* an index at or above that count, in a job longer than job 0, is never
\* placed and still has its start time unset.
StageCountInvariant ==
    /\ i \in 0..size(jobs[0].sequence)
    /\ \A j \in Jobs : \A s \in Stages(j) :
           /\ s >= size(jobs[0].sequence) => ~placed(j, s) /\ start_of(j, s) = unset
           /\ pc = "done" /\ s < size(jobs[0].sequence) =>
                  placements[j][s] = 1 /\ start_of(j, s) # unset
    /\ pc \in {"stage", "dispatch", "done"}

StageCountStep ==
    /\ pc # "done" /\ pc' = "done" => i = size(jobs[0].sequence)
    /\ pc = "stage" /\ pc' = "dispatch" => i < size(jobs[0].sequence) /\ i' = i
    /\ i' \in {i, i + 1, 0}
    /\ i' = 0 /\ i # 0 => pc' = "done"

StageCountFromJobZero == []StageCountInvariant /\ [][StageCountStep]_vars

\* schedule_jobs has returned; a job longer than job 0 has its first tasks
\* placed and its last task unset
StageCountWitness ==
    /\ pc = "done"
    /\ \E j \in Jobs :
           /\ size(jobs[j].sequence) > size(jobs[0].sequence)
           /\ placed(j, size(jobs[0].sequence) - 1)
           /\ ~placed(j, size(jobs[j].sequence) - 1)
           /\ start_of(j, size(jobs[j].sequence) - 1) = unset

\* C20. Chart quantization: for limit = longest_timeline(), quantized(limit)
\* of every timeline is a sequence of exactly limit cells, and cell t holds
\* the id of the job whose task occupies time t on that machine, or -1 when
\* the machine is free at t.
OccupantId(tl, u) ==
    jobs[tl[CHOOSE p \in 1..Len(tl) : occupied(tl[p]) /\ tl[p].start <= u /\ u <= tl[p].end].task[1]].id

ChartQuantization ==
    \A m \in Machines :
        LET q == quantized(table[m], longest_timeline)
        IN  /\ Len(q) = longest_timeline
            /\ \A u \in 0..(longest_timeline - 1) :
                   q[u + 1] = IF Covered(table[m], u) THEN OccupantId(table[m], u) ELSE -1

====
